---- MODULE Spec2Model ----
(***************************************************************************)
(* A model of the CocktailScraper repository: the Bar Store                *)
(* (storage/bar_storage.py), the menu-scraper controller                   *)
(* (components/menu_scraper/controller.py), the menu crawler               *)
(* (components/menu_scraper/crawler.py) and the usage ledger               *)
(* (core/tracking/usage_tracker.py, core/tracking/api_tracker.py).         *)
(*                                                                         *)
(* Python str values that the code transforms character by character       *)
(* (bar names, cities, ids) are sequences of one-character strings; URLs   *)
(* and other opaque texts are TLA+ strings.  A dict is a function whose    *)
(* DOMAIN is its key set.  Money is counted in units of 1e-7 dollar, so    *)
(* the prices of the code are integers.                                    *)
(***************************************************************************)
EXTENDS Integers, Sequences, FiniteSets, TLC

VARIABLES
    bars,      \* the rows of table `bars` (a set of records)
    clock,     \* the next value datetime.now() returns
    call,      \* the most recent call: [op |-> ..., <arguments>]
    ret,       \* what that call returned (a record, fields by operation)
    session,   \* UsageTracker.session
    calls,     \* APICallTracker.calls
    log,       \* the lines of usage_logs.jsonl
    crawl      \* what the last find_menu left: browser, saved result, screenshots

vars == <<bars, clock, call, ret, session, calls, log, crawl>>

(***************************************************************************)
(* Bounds of the model.                                                    *)
(***************************************************************************)
MaxBars == 2      \* rows the store may hold
MaxTime == 4      \* last value of the clock in the runs of add_bar
MaxWrites == 2    \* update_menu_info calls in the runs of the menu scraper
MaxResults == 2   \* num_results of one Brave search

None == "None"

(***************************************************************************)
(* Python values.                                                          *)
(***************************************************************************)
\* the truth value of an optional text
Truthy(v) == v # None /\ v # ""

Get(d, k) == IF k \in DOMAIN d THEN d[k] ELSE None

GetOr(d, k, default) == IF k \in DOMAIN d THEN d[k] ELSE default

\* json.dumps: the serialized text of a value; json.loads: its inverse
JsonDumps(v) == <<"json", v>>

JsonLoads(s) == s[2]

\* str.lower, one character
LowerChar(c) ==
    CASE c = "A" -> "a"
      [] c = "B" -> "b"
      [] c = "X" -> "x"
      [] OTHER -> c

\* str.lower
Lower(s) == [i \in 1..Len(s) |-> LowerChar(s[i])]

\* str.replace(old, new) for one-character old and new
Replace(s, old, new) == [i \in 1..Len(s) |-> IF s[i] = old THEN new ELSE s[i]]

\* the id without the lower-casing
BarIdNoLower(name, city) == Replace(name \o <<"_">> \o city, " ", "_")

\* bar_id = f"{bar_data['name']}_{city}".lower().replace(' ', '_')
BarId(name, city) == Replace(Lower(name \o <<"_">> \o city), " ", "_")

(***************************************************************************)
(* Inputs.                                                                 *)
(***************************************************************************)
NAMES == { <<"a", " ", "b">>, <<"A", " ", "b">>, <<"a", " ", " ", "b">>, <<"a">> }

CITIES == { <<"x">>, <<"X">>, <<"b", " ", "x">> }

\* what a discovered bar carries besides its name
SHAPES ==
    { [website |-> "http://w1"],
      [website |-> ""],
      [description |-> "d"],
      [website |-> "http://w1", menu_urls |-> <<"http://w1/menu">>],
      [website |-> "http://w2", cocktail_menu_url |-> "http://w2/m"] }

BAR_DATAS == { [name |-> n] @@ s : n \in NAMES, s \in SHAPES }

\* the bar data of the runs that exercise the id
ID_BAR_DATAS ==
    { [name |-> n] @@ s : n \in NAMES,
                          s \in { [website |-> "http://w1"], [description |-> "d"] } }

QUERIES == { "craft cocktail bar" }

(***************************************************************************)
(* BarStorage.                                                             *)
(***************************************************************************)
Ids == { r.id : r \in bars }

\* the lookup on the wrong column
RowsWithIdByName(id) == { r \in bars : r.name = id }

\* SELECT id FROM bars WHERE id = ?
RowsWithId(id) == { r \in bars : r.id = id }

\* datetime.now() read n times: the clock never goes back, and the model stops
\* after MaxTime
Ticks(n) == clock + n <= MaxTime + 1

\* update_menu_info reads the clock once; the model stops after MaxWrites
MayWrite(t) == t <= MaxWrites + 1

\* the row INSERT INTO bars writes at time t
NewRow(city, bar_data, search_query, t) ==
    [ id            |-> BarId(bar_data["name"], city),
      name          |-> bar_data["name"],
      city          |-> city,
      description   |-> Get(bar_data, "description"),
      website       |-> Get(bar_data, "website"),
      menu_url      |-> Get(bar_data, "cocktail_menu_url"),
      raw_data      |-> JsonDumps(bar_data),
      discovered_at |-> t,
      last_updated  |-> t + 1,
      search_query  |-> search_query ]

\* add_bar as INSERT OR REPLACE: the row of an id that exists is written anew
add_bar_replace(city, bar_data, search_query) ==
    LET bar_id == BarId(bar_data["name"], city)
        existing == RowsWithId(bar_id)
    IN  /\ call' = [op |-> "add_bar", city |-> city, bar_data |-> bar_data,
                    search_query |-> search_query]
        /\ Ticks(2)
        /\ existing = {} => Cardinality(bars) < MaxBars
        /\ bars' = (bars \ existing) \cup { NewRow(city, bar_data, search_query, clock) }
        /\ clock' = clock + 2
        /\ ret' = [bool |-> existing = {}]
        /\ UNCHANGED <<session, calls, log, crawl>>

add_bar(city, bar_data, search_query) ==
    LET bar_id == BarId(bar_data["name"], city)
        existing == RowsWithId(bar_id)
    IN  /\ call' = [op |-> "add_bar", city |-> city, bar_data |-> bar_data,
                    search_query |-> search_query]
        /\ IF existing # {}
           THEN \* UPDATE bars SET last_updated = ? WHERE id = ?; return False
                /\ Ticks(1)
                /\ bars' = { IF r.id = bar_id
                             THEN [r EXCEPT !.last_updated = clock]
                             ELSE r : r \in bars }
                /\ clock' = clock + 1
                /\ ret' = [bool |-> FALSE]
           ELSE IF bar_id \in Ids
           THEN \* id is the PRIMARY KEY: the INSERT raises sqlite3.IntegrityError,
                \* the transaction is rolled back and the handler returns False
                /\ Ticks(2)
                /\ bars' = bars
                /\ clock' = clock + 2
                /\ ret' = [bool |-> FALSE]
           ELSE \* INSERT INTO bars ...; return True
                /\ Ticks(2)
                /\ Cardinality(bars) < MaxBars
                /\ bars' = bars \cup { NewRow(city, bar_data, search_query, clock) }
                /\ clock' = clock + 2
                /\ ret' = [bool |-> TRUE]
        /\ UNCHANGED <<session, calls, log, crawl>>

AddBar ==
    \E city \in CITIES, bar_data \in ID_BAR_DATAS, q \in QUERIES :
        add_bar(city, bar_data, q)

(***************************************************************************)
(* MenuCrawler.  A site is what the browser meets during one find_menu     *)
(* call: the anchors of the seed page in document order, the order in      *)
(* which list(set(...)) hands the candidate links back, the links whose    *)
(* navigation or processing raises, and the first step outside the         *)
(* per-link handler that raises ("none" when none does).                   *)
(***************************************************************************)
MaxAnchors == 2   \* anchors on a seed page

ANCHORS ==
    { [href |-> "http://w1/menu",   text |-> "our menu"],
      [href |-> "http://w1/drinks", text |-> "drinks"],
      [href |-> "http://w1/list",   text |-> "cocktail list"],
      [href |-> "http://w1/about",  text |-> "about us"],
      [href |-> "mailto:bar@w1",    text |-> "menu by mail"] }

FAULTS == { "none", "launch", "goto", "links", "page", "mkdir", "save" }

\* a.href.startsWith('http')
StartsWithHttp(href) == href # "mailto:bar@w1"

\* any(pattern in link['href'].lower() for pattern in self.menu_url_patterns)
HasMenuPattern(href) == href \in { "http://w1/menu", "http://w1/drinks" }

\* any(term in link['text'] for term in ['menu', 'cocktail', 'drinks'])
HasMenuTerm(text) ==
    text \in { "our menu", "drinks", "cocktail list", "menu by mail" }

\* the list menu_links of _find_menu_links before list(set(...)): the
\* candidate links in document order, a link once for each of its anchors
RECURSIVE MenuLinkList(_)
MenuLinkList(anchors) ==
    IF anchors = <<>> THEN <<>>
    ELSE LET a == Head(anchors)
         IN  (IF StartsWithHttp(a.href)
                  /\ (HasMenuPattern(a.href) \/ HasMenuTerm(a.text))
              THEN <<a.href>> ELSE <<>>) \o MenuLinkList(Tail(anchors))

Range(f) == { f[i] : i \in DOMAIN f }

\* the lists that hold every element of S once
Perms(S) ==
    { p \in [1..Cardinality(S) -> S] : \A i, j \in DOMAIN p : p[i] = p[j] => i = j }

\* the candidate links in the order of their first anchor
RECURSIVE FirstOccurrences(_)
FirstOccurrences(l) ==
    IF l = <<>> THEN <<>>
    ELSE LET init == FirstOccurrences(SubSeq(l, 1, Len(l) - 1))
         IN  IF l[Len(l)] \in Range(init) THEN init ELSE Append(init, l[Len(l)])

\* _find_menu_links: list(set(menu_links)), in whatever order the set iterates
FindMenuLinks(anchors) == Perms(Range(MenuLinkList(anchors)))

\* the text _process_page collects from the page at url
TextOf(url) == <<"text of", url>>

\* _find_pdf_menus on the page at url
PdfMenus(url) == IF url = "http://w1/menu" THEN <<"http://w1/menu.pdf">> ELSE <<>>

\* _find_external_menu_links on the page at url
ExternalLinks(url) == IF url = "http://w2" THEN <<"http://resy.com/w2">> ELSE <<>>

\* _process_page
ProcessPage(url) ==
    [ cocktails      |-> << [text |-> TextOf(url)] >>,
      pdf_menus      |-> PdfMenus(url),
      external_links |-> ExternalLinks(url) ]

\* the initial result without the seed URL
InitialMenuDataNoSeed(website_url, homepage_data) ==
    [ menu_pages          |-> <<>>,
      cocktails           |-> homepage_data.cocktails,
      pdf_menus           |-> homepage_data.pdf_menus,
      external_menu_links |-> homepage_data.external_links ]

\* menu_data = {"menu_pages": [website_url], ...}
InitialMenuData(website_url, homepage_data) ==
    [ menu_pages          |-> <<website_url>>,
      cocktails           |-> homepage_data.cocktails,
      pdf_menus           |-> homepage_data.pdf_menus,
      external_menu_links |-> homepage_data.external_links ]

\* the loop that ends at the first link that raises
RECURSIVE VisitLinksBreak(_, _, _)
VisitLinksBreak(menu_data, menu_links, failing) ==
    IF menu_links = <<>> THEN menu_data
    ELSE LET link == Head(menu_links)
             page_data == ProcessPage(link)
         IN  IF link \in failing
             THEN menu_data
             ELSE VisitLinksBreak(
                    [ menu_pages          |-> Append(menu_data.menu_pages, link),
                      cocktails           |-> menu_data.cocktails \o page_data.cocktails,
                      pdf_menus           |-> menu_data.pdf_menus \o page_data.pdf_menus,
                      external_menu_links |->
                          menu_data.external_menu_links \o page_data.external_links ],
                    Tail(menu_links), failing)

\* for link in menu_links: goto, _process_page, append and extend; a link that
\* raises is logged and skipped
RECURSIVE VisitLinks(_, _, _)
VisitLinks(menu_data, menu_links, failing) ==
    IF menu_links = <<>> THEN menu_data
    ELSE LET link == Head(menu_links)
             page_data == ProcessPage(link)
         IN  IF link \in failing
             THEN VisitLinks(menu_data, Tail(menu_links), failing)
             ELSE VisitLinks(
                    [ menu_pages          |-> Append(menu_data.menu_pages, link),
                      cocktails           |-> menu_data.cocktails \o page_data.cocktails,
                      pdf_menus           |-> menu_data.pdf_menus \o page_data.pdf_menus,
                      external_menu_links |->
                          menu_data.external_menu_links \o page_data.external_links ],
                    Tail(menu_links), failing)

\* the exception leaves find_menu instead of being returned
ErrorResultRaised(fault) == [raised |-> fault]

\* except Exception as e: return {"error": str(e)}
ErrorResult(fault) == [error |-> fault]

IsError(result) == "error" \in DOMAIN result

\* the sites whose seed page carries one of these anchor lists
SitesOver(anchorLists) ==
    UNION { { [anchors |-> al, order |-> o, failing |-> f, fault |-> x] :
                o \in FindMenuLinks(al),
                f \in SUBSET Range(MenuLinkList(al)),
                x \in FAULTS } : al \in anchorLists }

\* find_menu: the value returned on the site
FindMenuResult(bar_id, website_url, site) ==
    IF site.fault \in { "launch", "goto", "links", "page" }
    THEN ErrorResult(site.fault)
    ELSE LET menu_links == site.order
             homepage_data == ProcessPage(website_url)
             menu_data == VisitLinks(InitialMenuData(website_url, homepage_data),
                                     menu_links, site.failing)
         IN  IF site.fault \in { "mkdir", "save" }
             THEN ErrorResult(site.fault)
             ELSE menu_data

(***************************************************************************)
(* UsageTracker and APICallTracker.                                        *)
(***************************************************************************)
\* UsageTracker.reset_session at time t
NewSession(t) ==
    [ input_tokens             |-> 0,
      output_tokens            |-> 0,
      search_queries           |-> 0,
      start_time               |-> t,
      model                    |-> "gpt-3.5-turbo",
      search_results_truncated |-> 0,
      total_api_calls          |-> 0 ]

\* MODEL_CONFIGS['gpt-3.5-turbo']: 0.0005 and 0.0015 dollar per 1000 tokens,
\* that is 5 and 15 units of 1e-7 dollar per token
cost_per_1k_input == 5

cost_per_1k_output == 15

\* APICallTracker.brave_cost_per_call: 0.00083 dollar, in units of 1e-7 dollar
brave_cost_per_call == 8300

\* a text is known by its length and by the tokens tiktoken finds in it
TEXTS == { [chars |-> 0, tokens |-> 0], [chars |-> 9, tokens |-> 2] }

\* count_tokens: the number of tokens, or 0 when tiktoken raises
CountTokens(text, tokenizer_ok) == IF tokenizer_ok THEN text.tokens ELSE 0

\* the cost of an interaction at the input rate alone
InteractionCostInputRate(input_tokens, output_tokens) ==
    input_tokens * cost_per_1k_input + output_tokens * cost_per_1k_input

\* interaction_cost of track_llm_interaction
InteractionCost(input_tokens, output_tokens) ==
    input_tokens * cost_per_1k_input + output_tokens * cost_per_1k_output

\* APICallTracker.add_call: the record appended at time t
CallRecord(t, api_type, details) ==
    [timestamp |-> t, api_type |-> api_type] @@ details

RECURSIVE SumBraveCost(_)
\* APICallTracker.get_total_brave_cost
SumBraveCost(records) ==
    IF records = <<>> THEN 0
    ELSE (IF Head(records).api_type = "brave" THEN Head(records).cost ELSE 0)
         + SumBraveCost(Tail(records))

\* UsageTracker.calculate_cost, on a session and the recorded calls
CalculateCost(sess, records) ==
    sess.input_tokens * cost_per_1k_input
    + sess.output_tokens * cost_per_1k_output
    + SumBraveCost(records)

track_llm_interaction(prompt, response, prompt_ok, response_ok) ==
    LET input_tokens == CountTokens(prompt, prompt_ok)
        output_tokens == CountTokens(response, response_ok)
        details == [ input_tokens  |-> input_tokens,
                     output_tokens |-> output_tokens,
                     cost          |-> InteractionCost(input_tokens, output_tokens) ]
        call_record == CallRecord(clock, "llm", details)
    IN  /\ Ticks(1)
        /\ call' = [op |-> "track_llm_interaction", prompt |-> prompt,
                    response |-> response, prompt_ok |-> prompt_ok,
                    response_ok |-> response_ok]
        /\ session' = [session EXCEPT !.input_tokens = @ + input_tokens,
                                      !.output_tokens = @ + output_tokens]
        /\ calls' = Append(calls, call_record)
        /\ clock' = clock + 1
        /\ ret' = [record |-> call_record]
        /\ UNCHANGED <<bars, log, crawl>>

track_brave_search(query, num_results) ==
    LET details == [ query       |-> query,
                     num_results |-> num_results,
                     cost        |-> brave_cost_per_call * num_results ]
        call_record == CallRecord(clock, "brave", details)
    IN  /\ Ticks(1)
        /\ call' = [op |-> "track_brave_search", query |-> query,
                    num_results |-> num_results]
        /\ session' = [session EXCEPT !.search_queries = @ + 1]
        /\ calls' = Append(calls, call_record)
        /\ clock' = clock + 1
        /\ ret' = [record |-> call_record]
        /\ UNCHANGED <<bars, log, crawl>>

get_status ==
    /\ call' = [op |-> "get_status"]
    /\ ret' = [status |->
                 session @@
                 [ current_cost        |-> CalculateCost(session, calls),
                   input_cost          |-> session.input_tokens * cost_per_1k_input,
                   output_cost         |-> session.output_tokens * cost_per_1k_output,
                   brave_cost          |-> SumBraveCost(calls),
                   api_calls_breakdown |-> calls ]]
    /\ UNCHANGED <<bars, clock, session, calls, log, crawl>>

\* the log file opened with 'w'
OverwriteLine(file, line) == <<line>>

\* with self.log_file.open('a') as f: f.write(line + '\n')
AppendLine(file, line) == Append(file, line)

\* session_data of save_session at time t
SessionData(sess, records, t) ==
    sess @@ [ end_time   |-> t,
              total_cost |-> CalculateCost(sess, records),
              api_calls  |-> records ]

save_session ==
    /\ Ticks(1)
    /\ call' = [op |-> "save_session"]
    /\ log' = AppendLine(log, SessionData(session, calls, clock))
    /\ clock' = clock + 1
    /\ ret' = [none |-> TRUE]
    /\ UNCHANGED <<bars, session, calls, crawl>>

\* a reset that also empties the call-detail list
reset_session_and_calls ==
    /\ Ticks(1)
    /\ call' = [op |-> "reset_session"]
    /\ session' = NewSession(clock)
    /\ calls' = <<>>
    /\ clock' = clock + 1
    /\ ret' = [none |-> TRUE]
    /\ UNCHANGED <<bars, log, crawl>>

reset_session ==
    /\ Ticks(1)
    /\ call' = [op |-> "reset_session"]
    /\ session' = NewSession(clock)
    /\ clock' = clock + 1
    /\ ret' = [none |-> TRUE]
    /\ UNCHANGED <<bars, calls, log, crawl>>

\* before any find_menu
NoCrawl == [browser |-> "none", saved |-> <<>>, shots |-> <<>>]

\* leaving the block without stopping the browsers of the driver
PlaywrightExitNoStop(browser) == browser

\* leaving `with sync_playwright() as p:`, by return or by exception: the
\* driver is stopped and a browser it still runs ends with it
PlaywrightExit(browser) == IF browser = "open" THEN "stopped" ELSE browser

\* the browser when the `with` block is left: not launched when launch()
\* raises, closed by browser.close() on the normal path, still open when a
\* later step raises
BrowserAtExit(site) ==
    CASE site.fault = "launch" -> "none"
      [] site.fault = "none" -> "closed"
      [] OTHER -> "open"

\* what find_menu leaves behind: the browser, the raw result that was saved
\* and the pages that were screenshotted unless an earlier step raised
FindMenuEffects(bar_id, website_url, site) ==
    LET menu_data == VisitLinks(InitialMenuData(website_url, ProcessPage(website_url)),
                                site.order, site.failing)
    IN  [ browser |-> PlaywrightExit(BrowserAtExit(site)),
          saved   |-> IF site.fault = "none" THEN <<menu_data>> ELSE <<>>,
          shots   |-> IF site.fault \in { "none", "save" }
                      THEN menu_data.menu_pages ELSE <<>> ]

find_menu(bar_id, website_url, site) ==
    /\ call' = [op |-> "find_menu", bar_id |-> bar_id,
                website_url |-> website_url, site |-> site]
    /\ ret' = [result |-> FindMenuResult(bar_id, website_url, site)]
    /\ crawl' = FindMenuEffects(bar_id, website_url, site)
    /\ UNCHANGED <<bars, clock, session, calls, log>>

(***************************************************************************)
(* BarStorage.get_bars and update_menu_info.  An absent city is the empty  *)
(* text and an absent limit is 0: `if city:` and `if limit:` treat them    *)
(* like None.  A NULL raw_data is the empty text.                          *)
(***************************************************************************)
\* ORDER BY discovered_at DESC
RECURSIVE OrderByDiscoveredDesc(_)
OrderByDiscoveredDesc(rows) ==
    IF rows = {} THEN <<>>
    ELSE LET first == CHOOSE r \in rows :
                          \A q \in rows : q.discovered_at <= r.discovered_at
         IN  <<first>> \o OrderByDiscoveredDesc(rows \ {first})

\* bar_dict.pop('raw_data', None)
WithoutRaw(row) == [k \in DOMAIN row \ {"raw_data"} |-> row[k]]

\* get_bars(city, limit, include_raw), on the rows of `store`
GetBars(store, city, limit, include_raw) ==
    LET matching == IF city # <<>> THEN { r \in store : r.city = city } ELSE store
        ordered == OrderByDiscoveredDesc(matching)
        limited == IF limit # 0 /\ limit < Len(ordered)
                   THEN SubSeq(ordered, 1, limit) ELSE ordered
    IN  [i \in 1..Len(limited) |->
            IF include_raw THEN limited[i] ELSE WithoutRaw(limited[i])]

\* the document replaced by one that holds the key alone
JsonSetReplace(raw_data, key, value) == JsonDumps([k \in {key} |-> value])

\* json_set(COALESCE(raw_data, '{}'), '$.<key>', value)
JsonSet(raw_data, key, value) ==
    LET doc == IF raw_data = <<>> THEN <<>> ELSE JsonLoads(raw_data)
    IN  JsonDumps([k \in DOMAIN doc \cup {key} |-> IF k = key THEN value ELSE doc[k]])

\* an UPDATE that keeps the updated row alone
UpdateMenuInfoRowsOnly(store, bar_id, menu_urls, menu_data, t) ==
    { [r EXCEPT !.menu_url = IF menu_urls # <<>> THEN menu_urls[1] ELSE None,
                !.last_updated = t,
                !.raw_data = JsonSet(r.raw_data, "menu_data", JsonDumps(menu_data))] :
        r \in { q \in store : q.id = bar_id } }

\* an UPDATE that inserts a row when no row has the id
UpdateMenuInfoRowsUpsert(store, bar_id, menu_urls, menu_data, t) ==
    LET primary_url == IF menu_urls # <<>> THEN menu_urls[1] ELSE None
    IN  IF \E r \in store : r.id = bar_id
        THEN { IF r.id = bar_id
               THEN [r EXCEPT !.menu_url = primary_url,
                              !.last_updated = t,
                              !.raw_data = JsonSet(r.raw_data, "menu_data",
                                                   JsonDumps(menu_data))]
               ELSE r : r \in store }
        ELSE store \cup { [ id |-> bar_id, name |-> bar_id, city |-> <<>>,
                            description |-> None, website |-> None,
                            menu_url |-> primary_url,
                            raw_data |-> JsonSet(<<>>, "menu_data", JsonDumps(menu_data)),
                            discovered_at |-> t, last_updated |-> t,
                            search_query |-> None ] }

\* an UPDATE that keeps the menu_url of the row when menu_urls is empty
UpdateMenuInfoRowsKeepUrl(store, bar_id, menu_urls, menu_data, t) ==
    { IF r.id = bar_id
      THEN [r EXCEPT !.menu_url = IF menu_urls # <<>> THEN menu_urls[1] ELSE @,
                     !.last_updated = t,
                     !.raw_data = JsonSet(r.raw_data, "menu_data",
                                          JsonDumps(menu_data))]
      ELSE r : r \in store }

\* the UPDATE of update_menu_info, run at time t on the rows of `store`
UpdateMenuInfoRows(store, bar_id, menu_urls, menu_data, t) ==
    LET primary_url == IF menu_urls # <<>> THEN menu_urls[1] ELSE None
    IN  { IF r.id = bar_id
          THEN [r EXCEPT !.menu_url = primary_url,
                         !.last_updated = t,
                         !.raw_data = JsonSet(r.raw_data, "menu_data",
                                              JsonDumps(menu_data))]
          ELSE r : r \in store }

update_menu_info(bar_id, menu_urls, menu_data) ==
    /\ Ticks(1)
    /\ call' = [op |-> "update_menu_info", bar_id |-> bar_id,
                menu_urls |-> menu_urls, menu_data |-> menu_data]
    /\ bars' = UpdateMenuInfoRows(bars, bar_id, menu_urls, menu_data, clock)
    /\ clock' = clock + 1
    /\ ret' = [bool |-> TRUE]
    /\ UNCHANGED <<session, calls, log, crawl>>

\* get_bars
get_bars(city, limit, include_raw) ==
    /\ call' = [op |-> "get_bars", city |-> city, limit |-> limit,
                include_raw |-> include_raw]
    /\ ret' = [bars |-> GetBars(bars, city, limit, include_raw)]
    /\ UNCHANGED <<bars, clock, session, calls, log, crawl>>

\* get_bar_names: SELECT name FROM bars WHERE city = ?, in the order the
\* database hands the rows back
get_bar_names(city) ==
    /\ call' = [op |-> "get_bar_names", city |-> city]
    /\ \E rows \in Perms({ r \in bars : r.city = city }) :
          ret' = [names |-> [i \in 1..Len(rows) |-> rows[i].name]]
    /\ UNCHANGED <<bars, clock, session, calls, log, crawl>>

\* LIMIT 5 of the recent discoveries
RecentLimit == 5

\* get_stats
get_stats ==
    /\ call' = [op |-> "get_stats"]
    /\ ret' = [stats |->
                 [ total_bars   |-> Cardinality(bars),
                   bars_by_city |-> [c \in { r.city : r \in bars } |->
                                        Cardinality({ r \in bars : r.city = c })],
                   recent_discoveries |->
                       LET ordered == OrderByDiscoveredDesc(bars)
                           n == IF Len(ordered) < RecentLimit
                                THEN Len(ordered) ELSE RecentLimit
                       IN  [i \in 1..n |-> [ city          |-> ordered[i].city,
                                             name          |-> ordered[i].name,
                                             discovered_at |-> ordered[i].discovered_at ]] ]]
    /\ UNCHANGED <<bars, clock, session, calls, log, crawl>>

(***************************************************************************)
(* MenuScraperController.                                                  *)
(***************************************************************************)
\* the filter without the test of the website
NeedsMenuAnyWebsite(bar) ==
    \/ bar.raw_data = <<>>
    \/ "menu_urls" \notin DOMAIN JsonLoads(bar.raw_data)

\* bar['website'] and (not bar['raw_data'] or
\*                     'menu_urls' not in json.loads(bar['raw_data']))
NeedsMenu(bar) ==
    /\ Truthy(bar.website)
    /\ \/ bar.raw_data = <<>>
       \/ "menu_urls" \notin DOMAIN JsonLoads(bar.raw_data)

\* get_bars_needing_menus(city), on the rows of `store`
BarsNeedingMenus(store, city) ==
    SelectSeq(GetBars(store, city, 0, TRUE), NeedsMenu)

get_bars_needing_menus(city) ==
    /\ call' = [op |-> "get_bars_needing_menus", city |-> city]
    /\ ret' = [bars |-> BarsNeedingMenus(bars, city)]
    /\ UNCHANGED <<bars, clock, session, calls, log, crawl>>

\* what the store does with the UPDATE of one update_menu_info call: it runs,
\* or sqlite raises sqlite3.Error (update_menu_info prints it and returns
\* False), or the call raises another exception (it reaches the caller)
STORE_FAULTS == { "none", "sqlite", "other" }

\* the loop that returns at the first bar whose crawl or write fails
RECURSIVE ProcessLoopAbort(_, _, _, _)
ProcessLoopAbort(acc, todo, sites, stores) ==
    IF todo = <<>> THEN acc
    ELSE LET bar == Head(todo)
             crawler_results == FindMenuResult(bar.id, bar.website, sites[bar.id])
             crawled == [acc EXCEPT
                           !.crawled = Append(@, bar.id),
                           !.crawl = FindMenuEffects(bar.id, bar.website, sites[bar.id])]
         IN  IF IsError(crawler_results) THEN crawled
             ELSE IF stores[bar.id] # "none"
             THEN [crawled EXCEPT !.failed = Append(@, bar.id)]
             ELSE ProcessLoopAbort(
                    [crawled EXCEPT
                        !.bars = UpdateMenuInfoRows(@, bar.id,
                                    GetOr(crawler_results, "menu_pages", <<>>),
                                    crawler_results, acc.clock),
                        !.clock = @ + 1,
                        !.written = Append(@, bar.id)],
                    Tail(todo), sites, stores)

\* the loop that crawls a bar a second time when its crawl or its write failed
RECURSIVE ProcessLoopRetryOnce(_, _, _, _)
ProcessLoopRetryOnce(acc, todo, sites, stores) ==
    IF todo = <<>> THEN acc
    ELSE LET bar == Head(todo)
             crawler_results == FindMenuResult(bar.id, bar.website, sites[bar.id])
             crawled == [acc EXCEPT
                           !.crawled = Append(@, bar.id),
                           !.crawl = FindMenuEffects(bar.id, bar.website, sites[bar.id])]
             again == [crawled EXCEPT !.crawled = Append(@, bar.id)]
         IN  IF IsError(crawler_results)
             THEN ProcessLoopRetryOnce(again, Tail(todo), sites, stores)
             ELSE IF stores[bar.id] # "none"
             THEN ProcessLoopRetryOnce([again EXCEPT !.failed = Append(@, bar.id)],
                                       Tail(todo), sites, stores)
             ELSE ProcessLoopRetryOnce(
                    [crawled EXCEPT
                        !.bars = UpdateMenuInfoRows(@, bar.id,
                                    GetOr(crawler_results, "menu_pages", <<>>),
                                    crawler_results, acc.clock),
                        !.clock = @ + 1,
                        !.written = Append(@, bar.id)],
                    Tail(todo), sites, stores)

\* the loop of process_bars_without_menus over `todo`: each bar is crawled on
\* its site and, when the result is no error, written with update_menu_info;
\* a write that fails leaves the row as it was, and the loop goes on.
\* `acc` carries the store, the clock, the ids of the bars crawled, written
\* and failed to write, and the trace the crawler leaves.
RECURSIVE ProcessLoop(_, _, _, _)
ProcessLoop(acc, todo, sites, stores) ==
    IF todo = <<>> THEN acc
    ELSE LET bar == Head(todo)
             crawler_results == FindMenuResult(bar.id, bar.website, sites[bar.id])
             crawled == [acc EXCEPT
                           !.crawled = Append(@, bar.id),
                           !.crawl = FindMenuEffects(bar.id, bar.website, sites[bar.id])]
         IN  IF ~Truthy(bar.website)
             THEN ProcessLoop(acc, Tail(todo), sites, stores)
             ELSE IF IsError(crawler_results)
             THEN ProcessLoop(crawled, Tail(todo), sites, stores)
             ELSE IF stores[bar.id] # "none"
             THEN ProcessLoop([crawled EXCEPT !.failed = Append(@, bar.id)],
                              Tail(todo), sites, stores)
             ELSE ProcessLoop(
                    [crawled EXCEPT
                        !.bars = UpdateMenuInfoRows(@, bar.id,
                                    GetOr(crawler_results, "menu_pages", <<>>),
                                    crawler_results, acc.clock),
                        !.clock = @ + 1,
                        !.written = Append(@, bar.id)],
                    Tail(todo), sites, stores)

\* the selection with the limit left out
AllOf(selection, limit) == selection

\* if limit: bars = bars[:limit]
UpTo(selection, limit) ==
    IF limit # 0 /\ limit < Len(selection)
    THEN SubSeq(selection, 1, limit) ELSE selection

process_bars_without_menus(city, limit, sites, stores) ==
    LET needing == BarsNeedingMenus(bars, city)
        todo == UpTo(needing, limit)
        done == ProcessLoop([bars |-> bars, clock |-> clock, crawled |-> <<>>,
                             written |-> <<>>, failed |-> <<>>, crawl |-> crawl],
                            todo, sites, stores)
    IN  /\ MayWrite(done.clock)
        /\ call' = [op |-> "process_bars_without_menus", city |-> city,
                    limit |-> limit]
        /\ bars' = done.bars
        /\ clock' = done.clock
        /\ crawl' = done.crawl
        /\ ret' = [selected |-> [i \in 1..Len(todo) |-> todo[i].id],
                   crawled  |-> done.crawled,
                   written  |-> done.written,
                   failed   |-> done.failed]
        /\ UNCHANGED <<session, calls, log>>

(***************************************************************************)
(* MenuDataProcessor and MenuService.  The answer of the LLM is an input:  *)
(* the call raises, or its content is no JSON, or JSON that is no array,   *)
(* or a JSON array.                                                        *)
(***************************************************************************)
LLM_ANSWERS ==
    { [kind |-> "raises"],
      [kind |-> "no_json"],
      [kind |-> "object"],
      [kind |-> "array", value |-> <<>>],
      [kind |-> "array",
       value |-> << [name |-> "negroni", price |-> "$12",
                     ingredients |-> <<"gin", "vermouth">>] >>],
      [kind |-> "array",
       value |-> << [name |-> "negroni", price |-> "$12",
                     ingredients |-> <<"gin", "vermouth">>],
                    [name |-> "house special", price |-> "$10",
                     ingredients |-> <<>>],
                    [price |-> "$9", ingredients |-> <<"rum">>] >>] }

\* process_menu_data that gives up when the extraction fails
ProcessMenuDataOrError(crawler_results, answer) ==
    IF answer.kind = "array"
    THEN [ menu_urls           |-> GetOr(crawler_results, "menu_pages", <<>>),
           pdf_menus           |-> GetOr(crawler_results, "pdf_menus", <<>>),
           external_menu_links |-> GetOr(crawler_results, "external_menu_links", <<>>),
           cocktails           |-> answer.value ]
    ELSE [ error |-> answer.kind ]

\* process_menu_data: the value returned
ProcessMenuData(crawler_results, answer) ==
    LET raw_cocktails == GetOr(crawler_results, "cocktails", <<>>)
    IN  [ menu_urls           |-> GetOr(crawler_results, "menu_pages", <<>>),
          pdf_menus           |-> GetOr(crawler_results, "pdf_menus", <<>>),
          external_menu_links |-> GetOr(crawler_results, "external_menu_links", <<>>),
          cocktails           |-> IF raw_cocktails # <<>> /\ answer.kind = "array"
                                  THEN answer.value ELSE <<>> ]

process_menu_data(crawler_results, answer) ==
    /\ call' = [op |-> "process_menu_data", crawler_results |-> crawler_results,
                answer |-> answer]
    /\ ret' = [data |-> ProcessMenuData(crawler_results, answer)]
    /\ UNCHANGED <<bars, clock, session, calls, log, crawl>>

\* _has_valid_results
HasValidResults(results) ==
    /\ ~IsError(results)
    /\ \/ GetOr(results, "menu_pages", <<>>) # <<>>
       \/ GetOr(results, "cocktails", <<>>) # <<>>
       \/ GetOr(results, "pdf_menus", <<>>) # <<>>
       \/ GetOr(results, "external_menu_links", <<>>) # <<>>

process_bar_menu(bar_id, website_url, site, answer) ==
    LET crawler_results == FindMenuResult(bar_id, website_url, site)
        processed_data == ProcessMenuData(crawler_results, answer)
    IN  /\ call' = [op |-> "process_bar_menu", bar_id |-> bar_id,
                    website_url |-> website_url]
        /\ crawl' = FindMenuEffects(bar_id, website_url, site)
        /\ IF HasValidResults(crawler_results)
           THEN /\ MayWrite(clock + 1)
                /\ bars' = UpdateMenuInfoRows(bars, bar_id, processed_data.menu_urls,
                                              processed_data, clock)
                /\ clock' = clock + 1
                /\ ret' = [data |-> <<processed_data>>]
           ELSE /\ UNCHANGED <<bars, clock>>
                /\ ret' = [data |-> <<>>]
        /\ UNCHANGED <<session, calls, log>>

(***************************************************************************)
(* BarSearch.generate_search_query.  A query is the sequence of the texts   *)
(* it is put together from; city and bar names are texts of their own.      *)
(***************************************************************************)
\* self.search_patterns, each up to its "{}"
search_patterns ==
    { "best craft cocktail bars in ", "top mixology bars ", "hidden speakeasy bars ",
      "upscale cocktail lounges ", "innovative cocktail bars " }

\* excluded_bars[:5]
ExclusionLimit == 5

\* the slice that keeps the whole list
SliceAll(l, n) == l

\* l[:n]
Slice(l, n) == IF Len(l) <= n THEN l ELSE SubSeq(l, 1, n)

\* pattern.format(city)
Format(pattern, city) == <<pattern, city>>

\* ' '.join(f'-"{bar}"' for bar in names)
RECURSIVE JoinExclusions(_)
JoinExclusions(names) ==
    IF names = <<>> THEN <<>>
    ELSE << "-\"", Head(names), "\"" >>
         \o (IF Tail(names) = <<>> THEN <<>> ELSE <<" ">> \o JoinExclusions(Tail(names)))

\* generate_search_query with the pattern random.choice picked; excluded_bars
\* is None ([kind |-> "none"]) or a list ([kind |-> "list", names |-> ...])
GenerateSearchQuery(pattern, city, excluded_bars) ==
    LET query == Format(pattern, city)
    IN  IF excluded_bars.kind # "none" /\ Len(excluded_bars.names) > 0
        THEN query \o <<" ">>
                   \o JoinExclusions(Slice(excluded_bars.names, ExclusionLimit))
        ELSE query

generate_search_query(city, excluded_bars) ==
    /\ call' = [op |-> "generate_search_query", city |-> city,
                excluded_bars |-> excluded_bars]
    /\ \E pattern \in search_patterns :
          ret' = [query |-> GenerateSearchQuery(pattern, city, excluded_bars)]
    /\ UNCHANGED <<bars, clock, session, calls, log, crawl>>

(***************************************************************************)
(* The store, from the empty database.                                     *)
(***************************************************************************)
Init ==
    /\ bars = {}
    /\ clock = 1
    /\ call = [op |-> "init"]
    /\ ret = [bool |-> FALSE]
    /\ session = NewSession(1)
    /\ calls = <<>>
    /\ log = <<>>
    /\ crawl = NoCrawl

Next == AddBar

Spec == Init /\ [][Next]_vars

(***************************************************************************)
(* Claims about the id and the upsert.                                     *)
(***************************************************************************)
\* this step is a call of add_bar
AddBarStep == call'.op = "add_bar" /\ clock' # clock

\* the call before this step was add_bar with the name and city of this step's
SameNameAndCityAgain ==
    /\ call.op = "add_bar"
    /\ call.bar_data["name"] = call'.bar_data["name"]
    /\ call.city = call'.city

\* C1 as stated: calling add_bar twice with the same name and city, from any
\* store, the first call returns True and the second returns False, one row
\* with that id is left and its last_updated is the time of the second call.
C1_FirstCallCreates ==
    [][AddBarStep =>
        LET bar_id == BarId(call'.bar_data["name"], call'.city)
        IN  /\ Cardinality({ r \in bars' : r.id = bar_id }) = 1
            /\ IF SameNameAndCityAgain
               THEN /\ ret'.bool = FALSE
                    /\ \A r \in bars' : r.id = bar_id => r.last_updated = clock
               ELSE ret'.bool = TRUE]_vars

\* C1 amended: add_bar leaves exactly one row with the id of (name, city); it
\* returns True exactly when no row with that id existed before the call; a
\* second call with the same name and city returns False, adds no row and sets
\* last_updated of the row to the time of that call.
C1_IdempotentUpsert ==
    [][AddBarStep =>
        LET bar_id == BarId(call'.bar_data["name"], call'.city)
        IN  /\ Cardinality({ r \in bars' : r.id = bar_id }) = 1
            /\ ret'.bool = ({ r \in bars : r.id = bar_id } = {})
            /\ SameNameAndCityAgain =>
                  /\ ret'.bool = FALSE
                  /\ Cardinality(bars') = Cardinality(bars)
                  /\ \A r \in bars' : r.id = bar_id => r.last_updated = clock]_vars

\* add_bar was called for a name and city whose row an earlier add_bar with the
\* same name and city had inserted: it returned False and stamped the row
C1_Witness ==
    /\ call.op = "add_bar"
    /\ ret.bool = FALSE
    /\ \E r \in bars :
          /\ r.id = BarId(call.bar_data["name"], call.city)
          /\ r.name = call.bar_data["name"]
          /\ r.city = call.city
          /\ r.last_updated = clock - 1
          /\ r.last_updated > r.discovered_at + 1

\* C2: the id is decided by the lower-cased name and city: add_bar with a name
\* and a city that differ only in letter case from those of a stored row
\* addresses that row, returns False and inserts nothing.
C2_CaseInsensitiveId ==
    [][AddBarStep =>
        \A r \in bars :
            (/\ Lower(r.name) = Lower(call'.bar_data["name"])
             /\ Lower(r.city) = Lower(call'.city))
            => /\ BarId(call'.bar_data["name"], call'.city) = r.id
               /\ ret'.bool = FALSE
               /\ { x.id : x \in bars' } = Ids
               /\ Cardinality(bars') = Cardinality(bars)]_vars

\* add_bar returned False on a row stored under another spelling of the case
C2_Witness ==
    /\ call.op = "add_bar"
    /\ ret.bool = FALSE
    /\ \E r \in bars :
          /\ r.id = BarId(call.bar_data["name"], call.city)
          /\ r.name # call.bar_data["name"]
          /\ r.city # call.city
          /\ Lower(r.name) = Lower(call.bar_data["name"])
          /\ Lower(r.city) = Lower(call.city)
          /\ r.last_updated = clock - 1

\* str.strip(' ')
RECURSIVE StripLeft(_)
StripLeft(s) == IF s # <<>> /\ Head(s) = " " THEN StripLeft(Tail(s)) ELSE s

RECURSIVE StripRight(_)
StripRight(s) ==
    IF s # <<>> /\ s[Len(s)] = " " THEN StripRight(SubSeq(s, 1, Len(s) - 1)) ELSE s

\* every run of spaces becomes one space
RECURSIVE Squeeze(_)
Squeeze(s) ==
    IF Len(s) <= 1 THEN s
    ELSE IF s[1] = " " /\ s[2] = " " THEN Squeeze(Tail(s))
    ELSE <<s[1]>> \o Squeeze(Tail(s))

\* two texts that differ only in the amount of whitespace
SameUpToWhitespace(s, t) ==
    Squeeze(StripRight(StripLeft(s))) = Squeeze(StripRight(StripLeft(t)))

\* C3: add_bar with a name and a city that differ only in the amount of
\* whitespace from those of a stored row gets the id of that row, so it
\* returns False and creates no second row.
C3_WhitespaceCollapsedId ==
    [][AddBarStep =>
        \A r \in bars :
            (/\ SameUpToWhitespace(r.name, call'.bar_data["name"])
             /\ SameUpToWhitespace(r.city, call'.city))
            => /\ BarId(call'.bar_data["name"], call'.city) = r.id
               /\ ret'.bool = FALSE
               /\ Cardinality(bars') = Cardinality(bars)]_vars

\* a name or a city after lower-casing and space-to-underscore replacement
Normalized(s) == Replace(Lower(s), " ", "_")

\* C25: the id built by add_bar separates name from city: two pairs get the
\* same id only if their names are equal and their cities are equal after
\* lower-casing and space-to-underscore replacement, and add_bar never reports
\* a bar as already existing because of a row of a different (name, city).
C25_IdInjective ==
    [][AddBarStep =>
        /\ \A r \in bars :
              r.id = BarId(call'.bar_data["name"], call'.city)
              => /\ Normalized(r.name) = Normalized(call'.bar_data["name"])
                 /\ Normalized(r.city) = Normalized(call'.city)
        /\ ret'.bool = FALSE =>
              \E r \in bars :
                  /\ Normalized(r.name) = Normalized(call'.bar_data["name"])
                  /\ Normalized(r.city) = Normalized(call'.city)]_vars

(***************************************************************************)
(* A research run on the store: add_bar, and the reads by city that the     *)
(* researcher makes (get_bar_names before a search, get_bars after it).     *)
(***************************************************************************)
GetBarNamesOfCity == \E city \in CITIES : get_bar_names(city)

GetBarsOfCity == \E city \in CITIES : get_bars(city, 0, FALSE)

ResearchNext == AddBar \/ GetBarNamesOfCity \/ GetBarsOfCity

ResearchSpec == Init /\ [][ResearchNext]_vars

\* C26: after add_bar(city, bar_data, q) returned, True or False,
\* get_bar_names(city) and get_bars(city) with the same city string return an
\* entry for that bar, a name equal to bar_data['name'] up to the
\* normalization of the id, whatever the store held before.
C26_KnownBarsVisible ==
    [][(call.op = "add_bar" /\ call'.city = call.city) =>
        /\ call'.op = "get_bar_names" =>
              \E i \in 1..Len(ret'.names) :
                  Normalized(ret'.names[i]) = Normalized(call.bar_data["name"])
        /\ call'.op = "get_bars" =>
              \E i \in 1..Len(ret'.bars) :
                  Normalized(ret'.bars[i].name) = Normalized(call.bar_data["name"])]_vars

(***************************************************************************)
(* The crawler on its own: find_menu on every site of the bounds.          *)
(***************************************************************************)
\* the anchor lists of at most n anchors
AnchorLists(n) == UNION { [1..k -> ANCHORS] : k \in 0..n }

SEEDS == { "http://w1", "http://w2" }

\* a find_menu call about to be made
CrawlerInit ==
    /\ bars = {}
    /\ clock = 1
    /\ call \in { [op |-> "pending", bar_id |-> b, website_url |-> u, site |-> w] :
                    b \in { <<"a", "_", "x">> }, u \in SEEDS,
                    w \in SitesOver(AnchorLists(MaxAnchors)) }
    /\ ret = [bool |-> FALSE]
    /\ session = NewSession(1)
    /\ calls = <<>>
    /\ log = <<>>
    /\ crawl = NoCrawl

FindMenu ==
    /\ call.op = "pending"
    /\ find_menu(call.bar_id, call.website_url, call.site)

CrawlerNext == FindMenu

CrawlerSpec == CrawlerInit /\ [][CrawlerNext]_vars

\* find_menu was called, its seed page loaded and its link search returned
SeedLoaded ==
    /\ call.op = "find_menu"
    /\ call.site.fault \notin { "launch", "goto", "links" }

\* C9 as stated: when the seed page loads and _find_menu_links finds no
\* candidate link, find_menu returns a non-error result whose menu_pages is
\* [website_url].
C9_SeedOnlyResult ==
    (SeedLoaded /\ call.site.order = <<>>)
        => /\ ~IsError(ret.result)
           /\ ret.result.menu_pages = <<call.website_url>>

\* C9 amended: when the seed page loads, _find_menu_links finds no candidate
\* link and no later step raises (processing the seed page, creating the
\* screenshot directory, saving the raw result), find_menu returns a non-error
\* result whose menu_pages is [website_url]; when one of them raises, the
\* result is an error.
C9_SeedOnlyUnlessLaterFault ==
    (SeedLoaded /\ call.site.order = <<>>)
        => IF call.site.fault = "none"
           THEN /\ ~IsError(ret.result)
                /\ ret.result.menu_pages = <<call.website_url>>
           ELSE IsError(ret.result)

\* find_menu returned a result for a seed page with anchors, none a candidate
C9_Witness ==
    /\ SeedLoaded
    /\ call.site.anchors # <<>>
    /\ call.site.order = <<>>
    /\ ~IsError(ret.result)
    /\ ret.result.menu_pages = <<call.website_url>>

\* C10: in every non-error result of find_menu, menu_pages is the seed URL
\* followed by the candidate pages that were visited without failure, in the
\* order in which the links were discovered on the seed page.
C10_DiscoveryOrder ==
    (call.op = "find_menu" /\ ~IsError(ret.result))
        => ret.result.menu_pages =
              <<call.website_url>> \o
              SelectSeq(FirstOccurrences(MenuLinkList(call.site.anchors)),
                        LAMBDA l : l \notin call.site.failing)

\* C11 as stated: find_menu never raises, and any exception that occurs while
\* launching the browser, navigating, finding links, processing pages, taking
\* screenshots or saving the raw result is returned as {error: message}.
C11_AnyExceptionIsError ==
    (/\ call.op = "find_menu"
     /\ \/ call.site.fault # "none"
        \/ call.site.failing \cap Range(call.site.order) # {})
        => /\ DOMAIN ret.result = { "error" }

\* C11 amended: find_menu never raises.  An exception in launching the
\* browser, navigating to the seed page, finding links, processing the seed
\* page, creating the screenshot directory or saving the raw result is
\* returned as {error: message}; an exception in navigating to or processing
\* a candidate link is caught by the handler of that link and does not make
\* the result an error.
C11_NeverRaises ==
    call.op = "find_menu"
        => IF call.site.fault # "none"
           THEN ret.result = [error |-> call.site.fault]
           ELSE DOMAIN ret.result =
                    { "menu_pages", "cocktails", "pdf_menus", "external_menu_links" }

\* saving the raw result raised after a candidate link had failed, and
\* find_menu returned the error of the save
C11_Witness ==
    /\ call.op = "find_menu"
    /\ call.site.fault = "save"
    /\ call.site.failing \cap Range(call.site.order) # {}
    /\ ret.result = [error |-> "save"]

FOUND_BARS ==
    { [city |-> <<"x">>, bar_data |-> [name |-> <<"a", " ", "b">>, website |-> "http://w1"]],
      [city |-> <<"x">>, bar_data |-> [name |-> <<"a">>, description |-> "d"]],
      [city |-> <<"x">>,
       bar_data |-> [name |-> <<"a", " ", " ", "b">>, website |-> "http://w2",
                     cocktail_menu_url |-> "http://w2/m"]],
      [city |-> <<"b", " ", "x">>,
       bar_data |-> [name |-> <<"a", " ", "b">>, website |-> "http://w1",
                     menu_urls |-> <<"http://w1/menu">>]],
      [city |-> <<"b", " ", "x">>,
       bar_data |-> [name |-> <<"a", " ", " ", "b">>, website |-> ""]] }

\* the store after add_bar of the bars of `found`, one after the other, the
\* last of them two ticks before time 0
StoreOf(found) ==
    { NewRow(found[i].city, found[i].bar_data, "craft cocktail bar",
             2 * (i - Len(found)) - 2) : i \in 1..Len(found) }

FoundLists == UNION { Perms(S) : S \in { T \in SUBSET FOUND_BARS : Cardinality(T) <= MaxBars } }

MenuInit ==
    /\ bars \in { StoreOf(found) : found \in FoundLists }
    /\ clock = 1
    /\ call = [op |-> "init"]
    /\ ret = [bool |-> FALSE]
    /\ session = NewSession(1)
    /\ calls = <<>>
    /\ log = <<>>
    /\ crawl = NoCrawl

MENU_CITIES == { <<>>, <<"x">>, <<"b", " ", "x">> }

\* the sites the menu scraper meets: the seed page times out, or it loads
\* and carries one candidate link
MENU_SITES ==
    { w \in SitesOver({ <<>>, << [href |-> "http://w1/menu", text |-> "our menu"] >> }) :
        /\ w.failing = {}
        /\ w.fault = (IF w.anchors = <<>> THEN "goto" ELSE "none") }

\* the answers of the LLM the menu service meets
MENU_ANSWERS == { a \in LLM_ANSWERS : a.kind = "raises" \/ (a.kind = "array" /\ Len(a.value) = 1) }

GetBarsNeedingMenus == \E city \in MENU_CITIES : get_bars_needing_menus(city)

ProcessBarsWithoutMenus ==
    \E city \in MENU_CITIES, limit \in 0..1 :
        \E sites \in [{ r.id : r \in { q \in bars : NeedsMenu(q) } } -> MENU_SITES] :
            process_bars_without_menus(city, limit, sites, [id \in DOMAIN sites |-> "none"])

ProcessBarMenu ==
    \E r \in bars, site \in MENU_SITES, answer \in MENU_ANSWERS :
        /\ Truthy(r.website)
        /\ process_bar_menu(r.id, r.website, site, answer)

MenuNext == GetBarsNeedingMenus \/ ProcessBarsWithoutMenus \/ ProcessBarMenu

MenuSpec == MenuInit /\ [][MenuNext]_vars

\* C4: get_bars_needing_menus returns, among the bars of the city asked for
\* (all bars when none is), exactly those whose website is neither null nor
\* empty and whose raw_data is absent or has no menu_urls key, each once.
C4_MenuNeededSelection ==
    [][call'.op = "get_bars_needing_menus" =>
        LET returned == ret'.bars
            asked == IF call'.city = <<>> THEN bars
                     ELSE { r \in bars : r.city = call'.city }
        IN  /\ Range(returned) =
                 { r \in asked :
                     /\ r.website # None /\ r.website # ""
                     /\ \/ r.raw_data = <<>>
                        \/ "menu_urls" \notin DOMAIN JsonLoads(r.raw_data) }
            /\ Cardinality(Range(returned)) = Len(returned)
            /\ \A i \in 1..Len(returned) :
                 /\ returned[i].website # None
                 /\ "menu_urls" \notin DOMAIN JsonLoads(returned[i].raw_data)]_vars

\* get_bars_needing_menus returned a bar and left out a bar without website
\* and a bar whose raw_data has menu_urls
C4_Witness ==
    /\ call.op = "get_bars_needing_menus"
    /\ ret.bars # <<>>
    /\ \E r \in bars : r \notin Range(ret.bars) /\ ~Truthy(r.website)
                       /\ (call.city = <<>> \/ r.city = call.city)

\* the other case of C4: a bar with a website and menu_urls is left out
C4_WitnessMenuUrls ==
    /\ call.op = "get_bars_needing_menus"
    /\ \E r \in bars : /\ r \notin Range(ret.bars)
                       /\ Truthy(r.website)
                       /\ "menu_urls" \in DOMAIN JsonLoads(r.raw_data)
                       /\ (call.city = <<>> \/ r.city = call.city)

\* update_menu_info has written menu information for the bar
HasMenuInfo(row) ==
    row.raw_data # <<>> /\ "menu_data" \in DOMAIN JsonLoads(row.raw_data)

\* C5: once update_menu_info has written menu information for a bar, no later
\* get_bars_needing_menus selects the bar and no later
\* process_bars_without_menus crawls it.
C5_ProcessedBarsSkipped ==
    [][/\ call'.op = "get_bars_needing_menus" =>
            \A r \in bars : HasMenuInfo(r) => r \notin Range(ret'.bars)
       /\ call'.op = "process_bars_without_menus" =>
            \A r \in bars : HasMenuInfo(r) => r.id \notin Range(ret'.crawled)]_vars

(***************************************************************************)
(* The store under all its operations and the batches of the menu scraper,  *)
(* from a database that holds at most one bar of an earlier run.            *)
(***************************************************************************)
StoreInit ==
    /\ bars \in { StoreOf(found) : found \in { f \in FoundLists : Len(f) <= 1 } }
    /\ clock = 1
    /\ call = [op |-> "init"]
    /\ ret = [bool |-> FALSE]
    /\ session = NewSession(1)
    /\ calls = <<>>
    /\ log = <<>>
    /\ crawl = NoCrawl

\* the menu_urls and menu_data the callers of update_menu_info pass
MENU_URL_LISTS == { <<>>, <<"http://w1", "http://w1/menu">> }

MENU_DATAS ==
    { [menu_pages |-> <<"http://w1">>, cocktails |-> <<>>],
      [menu_urls |-> <<"http://w1">>, cocktails |-> << [name |-> "negroni"] >>] }

UpdateMenuInfo ==
    \E bar_id \in Ids \cup { <<"n", "o">> }, menu_urls \in MENU_URL_LISTS,
       menu_data \in MENU_DATAS :
        update_menu_info(bar_id, menu_urls, menu_data)

\* search_query=f'craft cocktail bar {city}'
STORE_QUERIES == { "craft cocktail bar x" }

StoreAddBar ==
    \E city \in { <<"x">> }, bar_data \in ID_BAR_DATAS, q \in STORE_QUERIES :
        add_bar(city, bar_data, q)

StoreGetBars ==
    \E include_raw \in BOOLEAN : get_bars(<<>>, 1, include_raw)

StoreGetBarNames == get_bar_names(<<"x">>)

StoreProcessBars ==
    \E sites \in [{ r.id : r \in { q \in bars : NeedsMenu(q) } } -> MENU_SITES] :
        process_bars_without_menus(<<>>, 0, sites, [id \in DOMAIN sites |-> "none"])

StoreNext ==
    \/ StoreAddBar
    \/ UpdateMenuInfo
    \/ StoreGetBars
    \/ StoreGetBarNames
    \/ get_stats
    \/ StoreProcessBars

StoreSpec == StoreInit /\ [][StoreNext]_vars

\* update_menu_info was called for a bar that the store holds
UpdatesExistingBar ==
    /\ call'.op = "update_menu_info"
    /\ \E r \in bars : r.id = call'.bar_id

\* C15 as stated: after update_menu_info on an existing bar, every key that
\* the raw_data payload held before is still there with its previous value,
\* menu_data is stored under one nested key of the payload, and menu_url is
\* menu_urls[0] when menu_urls is not empty.
C15_MergeKeepsEveryKey ==
    [][UpdatesExistingBar =>
        LET before == CHOOSE r \in bars : r.id = call'.bar_id
            after == CHOOSE r \in bars' : r.id = call'.bar_id
            old_doc == JsonLoads(before.raw_data)
            new_doc == JsonLoads(after.raw_data)
        IN  /\ \A k \in DOMAIN old_doc :
                  k \in DOMAIN new_doc /\ new_doc[k] = old_doc[k]
            /\ DOMAIN new_doc = DOMAIN old_doc \cup { "menu_data" }
            /\ JsonLoads(new_doc["menu_data"]) = call'.menu_data
            /\ call'.menu_urls # <<>> => after.menu_url = call'.menu_urls[1]]_vars

\* C15 amended: after update_menu_info on an existing bar, every key other
\* than menu_data that the raw_data payload held before is still there with
\* its previous value, the new menu_data is stored under the one nested key
\* menu_data (replacing an earlier one), and menu_url is menu_urls[0] when
\* menu_urls is not empty.
C15_MergeKeepsOtherKeys ==
    [][UpdatesExistingBar =>
        LET before == CHOOSE r \in bars : r.id = call'.bar_id
            after == CHOOSE r \in bars' : r.id = call'.bar_id
            old_doc == JsonLoads(before.raw_data)
            new_doc == JsonLoads(after.raw_data)
        IN  /\ \A k \in DOMAIN old_doc \ { "menu_data" } :
                  k \in DOMAIN new_doc /\ new_doc[k] = old_doc[k]
            /\ DOMAIN new_doc = DOMAIN old_doc \cup { "menu_data" }
            /\ JsonLoads(new_doc["menu_data"]) = call'.menu_data
            /\ call'.menu_urls # <<>> => after.menu_url = call'.menu_urls[1]]_vars

\* update_menu_info wrote menu_data and a menu_url into a row that keeps the
\* name and the website of its raw_data
C15_Witness ==
    /\ call.op = "update_menu_info"
    /\ call.menu_urls # <<>>
    /\ \E r \in bars :
          /\ r.id = call.bar_id
          /\ r.menu_url = call.menu_urls[1]
          /\ { "name", "website", "menu_data" } \subseteq DOMAIN JsonLoads(r.raw_data)
          /\ JsonLoads(r.raw_data)["name"] = r.name

\* C18: over any sequence of add_bar, update_menu_info, get_bars,
\* get_bar_names, get_stats and process_bars_without_menus calls the set of
\* bar ids in the store never shrinks.
C18_BarsNeverDeleted ==
    [][{ r.id : r \in bars } \subseteq { r.id : r \in bars' }]_vars

\* update_menu_info or a batch of the menu scraper wrote to one of two rows
C18_Witness ==
    /\ Cardinality(Ids) >= 2
    /\ \/ call.op = "update_menu_info" /\ call.bar_id \in Ids
       \/ call.op = "process_bars_without_menus" /\ ret.written # <<>>

\* C27: when bar_id matches no row, update_menu_info returns True, creates
\* no row and leaves every existing row unchanged.
C27_UnknownBarNoEffect ==
    [][(/\ call'.op = "update_menu_info"
        /\ clock' # clock
        /\ \A r \in bars : r.id # call'.bar_id)
        => /\ ret'.bool = TRUE
           /\ bars' = bars]_vars

\* update_menu_info returned True for an id that no row of the store has
C27_Witness ==
    /\ call.op = "update_menu_info"
    /\ bars # {}
    /\ \A r \in bars : r.id # call.bar_id
    /\ \A r \in bars : r.last_updated < clock - 1
    /\ ret.bool = TRUE

\* C28: update_menu_info with an empty menu_urls list on an existing bar sets
\* menu_url to null, also when the row held a menu_url before (such as the
\* cocktail_menu_url stored by add_bar); the previous value is not kept.
C28_EmptyListClearsMenuUrl ==
    [][(/\ call'.op = "update_menu_info"
        /\ clock' # clock
        /\ call'.menu_urls = <<>>)
        => \A r \in bars' : r.id = call'.bar_id => r.menu_url = None]_vars

\* update_menu_info with an empty list cleared the cocktail_menu_url that
\* add_bar had stored
C28_Witness ==
    /\ call.op = "update_menu_info"
    /\ call.menu_urls = <<>>
    /\ \E r \in bars :
          /\ r.id = call.bar_id
          /\ r.last_updated = clock - 1
          /\ Truthy(Get(JsonLoads(r.raw_data), "cocktail_menu_url"))
          /\ r.menu_url = None

\* C29: add_bar for an id that exists leaves name, city, description,
\* website, menu_url, raw_data, discovered_at and search_query of the row as
\* the first insertion stored them, even if bar_data or search_query differ;
\* discovered_at of a row never changes, and last_updated is never earlier
\* than discovered_at.
C29_RediscoveryKeepsRow ==
    [][/\ AddBarStep =>
            \A r \in bars :
                r.id = BarId(call'.bar_data["name"], call'.city)
                => /\ [r EXCEPT !.last_updated = clock] \in bars'
                   /\ Cardinality(bars') = Cardinality(bars)
       /\ \A r \in bars :
            \E q \in bars' : q.id = r.id /\ q.discovered_at = r.discovered_at
       /\ \A q \in bars' : q.last_updated >= q.discovered_at]_vars

\* add_bar met a row stored from another bar_data under another search query
\* and changed its last_updated alone
C29_Witness ==
    /\ call.op = "add_bar"
    /\ ret.bool = FALSE
    /\ \E r \in bars :
          /\ r.id = BarId(call.bar_data["name"], call.city)
          /\ r.raw_data # JsonDumps(call.bar_data)
          /\ r.search_query # call.search_query
          /\ r.last_updated = clock - 1
          /\ r.discovered_at < 0

(***************************************************************************)
(* The extractor on the results of the crawler: the first steps of          *)
(* MenuService.process_bar_menu, one at a time.                             *)
(***************************************************************************)
Extract ==
    /\ call.op = "find_menu"
    /\ HasValidResults(ret.result)
    /\ \E answer \in LLM_ANSWERS : process_menu_data(ret.result, answer)

ExtractorNext == FindMenu \/ Extract

ExtractorSpec == CrawlerInit /\ [][ExtractorNext]_vars

\* C14: when the LLM call fails or its output is no JSON array,
\* process_menu_data does not raise and returns menu_urls, pdf_menus and
\* external_menu_links equal to menu_pages, pdf_menus and external_menu_links
\* of the crawler result, with cocktails the empty list.
C14_BestEffortExtraction ==
    (call.op = "process_menu_data" /\ call.answer.kind # "array")
        => ret.data = [ menu_urls           |-> call.crawler_results.menu_pages,
                        pdf_menus           |-> call.crawler_results.pdf_menus,
                        external_menu_links |-> call.crawler_results.external_menu_links,
                        cocktails           |-> <<>> ]

\* the LLM call raised on a crawler result with page text, two pages and a PDF
C14_Witness ==
    /\ call.op = "process_menu_data"
    /\ call.answer.kind = "raises"
    /\ call.crawler_results.cocktails # <<>>
    /\ Len(ret.data.menu_urls) = 2
    /\ ret.data.pdf_menus # <<>>
    /\ ret.data.cocktails = <<>>

\* C21: every cocktail record in the cocktails list that process_menu_data
\* returns has a name and a non-empty ingredient list, whatever JSON array the
\* LLM returns.
C21_CocktailsHaveNameAndIngredients ==
    call.op = "process_menu_data" =>
        \A i \in 1..Len(ret.data.cocktails) :
            LET cocktail == ret.data.cocktails[i]
            IN  /\ Truthy(Get(cocktail, "name"))
                /\ "ingredients" \in DOMAIN cocktail
                /\ cocktail["ingredients"] # <<>>

(***************************************************************************)
(* One batch of the menu scraper: process_bars_without_menus on every       *)
(* store, site and store fault of the bounds.                               *)
(***************************************************************************)
\* a process_bars_without_menus call about to be made
BatchInit ==
    /\ bars \in { StoreOf(found) : found \in FoundLists }
    /\ clock = 1
    /\ call \in { [op |-> "pending_batch", city |-> c, limit |-> l,
                    sites |-> w, stores |-> f] :
                    c \in MENU_CITIES, l \in 0..2,
                    w \in [{ r.id : r \in { q \in bars : NeedsMenu(q) } } -> MENU_SITES],
                    f \in [{ r.id : r \in { q \in bars : NeedsMenu(q) } } -> STORE_FAULTS] }
    /\ ret = [bool |-> FALSE]
    /\ session = NewSession(1)
    /\ calls = <<>>
    /\ log = <<>>
    /\ crawl = NoCrawl

ProcessBatch ==
    /\ call.op = "pending_batch"
    /\ process_bars_without_menus(call.city, call.limit, call.sites, call.stores)

BatchNext == ProcessBatch

BatchSpec == BatchInit /\ [][BatchNext]_vars

\* C13: in process_bars_without_menus, when the crawl or the store write of a
\* selected bar raises or yields an error, nothing is written for that bar,
\* and every other selected bar is still crawled and, when its crawl and its
\* write succeed, written to the store: one bar's failure never ends the batch.
C13_PerBarIsolation ==
    [][(call.op = "pending_batch" /\ call'.op = "process_bars_without_menus") =>
        \A i \in 1..Len(ret'.selected) :
            LET id == ret'.selected[i]
                before == CHOOSE r \in bars : r.id = id
                after == CHOOSE r \in bars' : r.id = id
                failed == \/ call.sites[id].fault # "none"
                          \/ call.stores[id] # "none"
            IN  /\ id \in Range(ret'.crawled)
                /\ IF failed
                   THEN after = before
                   ELSE /\ HasMenuInfo(after)
                        /\ after.menu_url = before.website]_vars

\* a batch of two bars: the crawl of the first failed, the second was written
C13_Witness ==
    /\ call.op = "process_bars_without_menus"
    /\ Len(ret.selected) = 2
    /\ ret.crawled = ret.selected
    /\ ret.written = << ret.selected[2] >>
    /\ ret.failed = <<>>
    /\ \E r \in bars : r.id = ret.selected[2] /\ HasMenuInfo(r)

\* a batch of two bars: the write of the first failed, the second was written
C13_WitnessStoreFault ==
    /\ call.op = "process_bars_without_menus"
    /\ Len(ret.selected) = 2
    /\ ret.failed = << ret.selected[1] >>
    /\ ret.written = << ret.selected[2] >>

\* C19: in process_bars_without_menus, for every selected bar whose crawl
\* returns a result without an error, the crawl result is forwarded to
\* process_menu_data and only then written to the store: the payload that
\* update_menu_info writes is the output of the extractor, with menu_urls and
\* cocktails.
C19_ExtractorBeforeStore ==
    [][(call.op = "pending_batch" /\ call'.op = "process_bars_without_menus") =>
        \A i \in 1..Len(ret'.written) :
            LET id == ret'.written[i]
                before == CHOOSE r \in bars : r.id = id
                after == CHOOSE r \in bars' : r.id = id
                payload == JsonLoads(JsonLoads(after.raw_data)["menu_data"])
                crawler_results == FindMenuResult(id, before.website, call.sites[id])
            IN  /\ { "menu_urls", "cocktails" } \subseteq DOMAIN payload
                /\ \E answer \in LLM_ANSWERS :
                      payload = ProcessMenuData(crawler_results, answer)]_vars

\* the bars of the store that the batch asked for selects: those of the city
\* with a website and without menu_urls in their raw_data
SelectedFor(store, city) ==
    { r \in store :
        /\ city = <<>> \/ r.city = city
        /\ r.website # None /\ r.website # ""
        /\ "menu_urls" \notin DOMAIN JsonLoads(r.raw_data) }

\* C23: process_bars_without_menus with limit n >= 1 invokes the crawler for at
\* most n bars, namely the first n bars of the selection in store order
\* (discovered_at descending); with no limit every selected bar is processed.
C23_LimitCap ==
    [][(call.op = "pending_batch" /\ call'.op = "process_bars_without_menus") =>
        LET selection == SelectedFor(bars, call.city)
            crawled == ret'.crawled
            rowOf(id) == CHOOSE r \in selection : r.id = id
            n == IF call.limit = 0 \/ Cardinality(selection) < call.limit
                 THEN Cardinality(selection) ELSE call.limit
        IN  /\ Len(crawled) = n
            /\ Range(crawled) \subseteq { r.id : r \in selection }
            /\ \A i, j \in 1..Len(crawled) :
                  i < j => rowOf(crawled[i]).discovered_at > rowOf(crawled[j]).discovered_at
            /\ \A r \in selection :
                  r.id \notin Range(crawled) =>
                      \A i \in 1..Len(crawled) :
                          rowOf(crawled[i]).discovered_at > r.discovered_at]_vars

\* a batch with limit 1 on a selection of two bars crawled the newer one alone
C23_Witness ==
    /\ call.op = "process_bars_without_menus"
    /\ call.limit = 1
    /\ Len(ret.crawled) = 1
    /\ \E r, q \in bars :
          /\ r.id = ret.crawled[1]
          /\ q.id # r.id
          /\ call.city = <<>> \/ q.city = call.city
          /\ Truthy(q.website)
          /\ "menu_urls" \notin DOMAIN JsonLoads(q.raw_data)
          /\ "menu_data" \notin DOMAIN JsonLoads(q.raw_data)
          /\ q.discovered_at < r.discovered_at

\* a batch without limit crawled two bars
C23_WitnessNoLimit ==
    /\ call.op = "process_bars_without_menus"
    /\ call.limit = 0
    /\ Len(ret.crawled) = 2

(***************************************************************************)
(* One batch of the menu scraper, bar by bar: the selection, one turn of    *)
(* the loop for each selected bar, and the return.  The call record holds   *)
(* the position of the loop.                                                *)
(***************************************************************************)
\* bars = self.get_bars_needing_menus(city); if limit: bars = bars[:limit]
LoopStart ==
    /\ call.op = "pending_batch"
    /\ LET todo == UpTo(BarsNeedingMenus(bars, call.city), call.limit)
       IN  call' = [op |-> "batch_loop", city |-> call.city, limit |-> call.limit,
                    sites |-> call.sites, stores |-> call.stores,
                    selected |-> [i \in 1..Len(todo) |-> todo[i].id],
                    todo |-> todo, crawled |-> <<>>, written |-> <<>>,
                    failed |-> <<>>]
    /\ UNCHANGED <<bars, clock, ret, session, calls, log, crawl>>

\* one turn of `for i, bar in enumerate(bars, 1)`
LoopStep ==
    /\ call.op = "batch_loop"
    /\ call.todo # <<>>
    /\ LET done == ProcessLoop([bars |-> bars, clock |-> clock,
                                crawled |-> call.crawled, written |-> call.written,
                                failed |-> call.failed, crawl |-> crawl],
                               << Head(call.todo) >>, call.sites, call.stores)
       IN  /\ bars' = done.bars
           /\ clock' = done.clock
           /\ crawl' = done.crawl
           /\ call' = [call EXCEPT !.todo = Tail(@),
                                   !.crawled = done.crawled,
                                   !.written = done.written,
                                   !.failed = done.failed]
    /\ UNCHANGED <<ret, session, calls, log>>

\* the loop is over (or `if not bars: return`)
LoopReturn ==
    /\ call.op = "batch_loop"
    /\ call.todo = <<>>
    /\ call' = [op |-> "process_bars_without_menus", city |-> call.city,
                limit |-> call.limit]
    /\ ret' = [selected |-> call.selected, crawled |-> call.crawled,
               written |-> call.written, failed |-> call.failed]
    /\ UNCHANGED <<bars, clock, session, calls, log, crawl>>

LoopNext == LoopStart \/ LoopStep \/ LoopReturn

\* the interpreter runs the invocation on: a step that can be taken is taken
LoopSpec == BatchInit /\ [][LoopNext]_vars /\ WF_vars(LoopNext)

\* the crawler invocations of the batch so far
CrawledSoFar ==
    IF call.op = "batch_loop" THEN call.crawled
    ELSE IF call.op = "process_bars_without_menus" THEN ret.crawled
    ELSE <<>>

SelectedSoFar ==
    IF call.op = "batch_loop" THEN call.selected
    ELSE IF call.op = "process_bars_without_menus" THEN ret.selected
    ELSE <<>>

\* C24: every invocation of process_bars_without_menus terminates after
\* invoking the crawler at most once for each selected bar; a bar whose crawl
\* or store write fails is not retried within the invocation.
C24_RetryFreeTermination ==
    /\ [](/\ Range(CrawledSoFar) \subseteq Range(SelectedSoFar)
          /\ \A i, j \in 1..Len(CrawledSoFar) :
                CrawledSoFar[i] = CrawledSoFar[j] => i = j)
    /\ <>(call.op = "process_bars_without_menus")

\* the batch returned after one crawl for each of two bars, the crawl of one
\* and the write of the other having failed
C24_Witness ==
    /\ call.op = "process_bars_without_menus"
    /\ Len(ret.selected) = 2
    /\ ret.crawled = ret.selected
    /\ Len(ret.failed) = 1
    /\ ret.written = <<>>

(***************************************************************************)
(* The query generator on every city and exclusion list of the bounds.      *)
(***************************************************************************)
MaxExcluded == 6   \* names in an exclusion list

SEARCH_CITIES == { "Seattle", "New York" }

KNOWN_BARS == { "Canon", "Bar X" }

\* the exclusion lists: None, or at most MaxExcluded names
EXCLUSION_LISTS ==
    { [kind |-> "none"] }
    \cup { [kind |-> "list", names |-> l] :
             l \in UNION { [1..k -> KNOWN_BARS] : k \in 0..MaxExcluded } }

\* a generate_search_query call about to be made
SearchInit ==
    /\ bars = {}
    /\ clock = 1
    /\ call \in { [op |-> "pending_query", city |-> c, excluded_bars |-> e] :
                    c \in SEARCH_CITIES, e \in EXCLUSION_LISTS }
    /\ ret = [bool |-> FALSE]
    /\ session = NewSession(1)
    /\ calls = <<>>
    /\ log = <<>>
    /\ crawl = NoCrawl

GenerateQuery ==
    /\ call.op = "pending_query"
    /\ generate_search_query(call.city, call.excluded_bars)

SearchNext == GenerateQuery

SearchSpec == SearchInit /\ [][SearchNext]_vars

\* C16: generate_search_query(city, excluded) returns one of the fixed
\* templates instantiated with city, followed by negative-match terms for
\* exactly the first min(5, len(excluded)) names of excluded in input order;
\* with an empty or missing list the query has no negative-match term.
C16_BoundedExclusions ==
    call.op = "generate_search_query" =>
        LET q == ret.query
            e == call.excluded_bars
            n == IF e.kind = "none" THEN 0
                 ELSE IF Len(e.names) < 5 THEN Len(e.names) ELSE 5
        IN  /\ Len(q) = 2 + 4 * n
            /\ q[1] \in search_patterns
            /\ q[2] = call.city
            /\ \A i \in 1..n :
                  /\ q[4 * i - 1] = " "
                  /\ q[4 * i] = "-\""
                  /\ q[4 * i + 1] = e.names[i]
                  /\ q[4 * i + 2] = "\""

\* a query for a list of more than five names: five terms, the sixth name
\* left out
C16_Witness ==
    /\ call.op = "generate_search_query"
    /\ call.excluded_bars.kind = "list"
    /\ Len(call.excluded_bars.names) > 5
    /\ call.excluded_bars.names[5] # call.excluded_bars.names[6]
    /\ Len(ret.query) = 22
    /\ ret.query[21] = call.excluded_bars.names[5]

\* a query for a missing list
C16_WitnessNone ==
    /\ call.op = "generate_search_query"
    /\ call.excluded_bars.kind = "none"
    /\ Len(ret.query) = 2

(***************************************************************************)
(* The usage ledger of one tracker, from its construction.                 *)
(***************************************************************************)
\* UsageTracker.__init__: reset_session reads the clock
LedgerInit ==
    /\ bars = {}
    /\ clock = 2
    /\ call = [op |-> "init"]
    /\ ret = [none |-> TRUE]
    /\ session = NewSession(1)
    /\ calls = <<>>
    /\ log = <<>>
    /\ crawl = NoCrawl

TrackLlmInteraction ==
    \E prompt \in TEXTS, response \in TEXTS, prompt_ok \in BOOLEAN,
       response_ok \in BOOLEAN :
        track_llm_interaction(prompt, response, prompt_ok, response_ok)

TrackBraveSearch ==
    \E num_results \in 1..MaxResults : track_brave_search("bars x", num_results)

\* track_brave_search and track_llm_interaction alone, and get_status
TrackNext == TrackLlmInteraction \/ TrackBraveSearch \/ get_status

TrackSpec == LedgerInit /\ [][TrackNext]_vars

\* every operation of the tracker
LedgerNext ==
    TrackLlmInteraction \/ TrackBraveSearch \/ get_status \/ save_session
    \/ reset_session

LedgerSpec == LedgerInit /\ [][LedgerNext]_vars

RECURSIVE SumCost(_)
\* the sum of the cost fields of the records
SumCost(records) ==
    IF records = <<>> THEN 0 ELSE Head(records).cost + SumCost(Tail(records))

\* C6: after any sequence of track_brave_search and track_llm_interaction
\* calls, calculate_cost and get_status()['current_cost'] equal the sum of the
\* cost fields of the records of api_tracker.calls.
C6_CostAdditivity ==
    /\ CalculateCost(session, calls) = SumCost(calls)
    /\ call.op = "get_status" => ret.status.current_cost = SumCost(calls)

\* get_status after a search and an LLM call that both cost something
C6_Witness ==
    /\ call.op = "get_status"
    /\ ret.status.current_cost > 0
    /\ \E i, j \in 1..Len(calls) :
          /\ calls[i].api_type = "llm" /\ calls[i].cost > 0
          /\ calls[i].input_tokens > 0 /\ calls[i].output_tokens > 0
          /\ calls[j].api_type = "brave" /\ calls[j].cost > 0

\* C7: a get_status that follows save_session reports zero input tokens, zero
\* output tokens, zero search queries and zero cost.
C7_SaveResetsCounters ==
    [][(call.op = "save_session" /\ call'.op = "get_status") =>
          /\ ret'.status.input_tokens = 0
          /\ ret'.status.output_tokens = 0
          /\ ret'.status.search_queries = 0
          /\ ret'.status.current_cost = 0]_vars

\* C8: a save_session call appends one record to the log, made of the session
\* counters, the end time, the total cost and the whole call list; the records
\* already there stay as they are, in their order; nothing else touches the log.
C8_AppendOnlyLog ==
    [][IF call'.op = "save_session" /\ clock' # clock
       THEN /\ Len(log') = Len(log) + 1
            /\ SubSeq(log', 1, Len(log)) = log
            /\ LET record == log'[Len(log')]
               IN  /\ \A k \in DOMAIN session : record[k] = session[k]
                   /\ record.end_time = clock
                   /\ record.total_cost = CalculateCost(session, calls)
                   /\ record.api_calls = calls
       ELSE log' = log]_vars

\* two sessions saved one after the other, the second with more calls
C8_Witness ==
    /\ call.op = "save_session"
    /\ Len(log) >= 2
    /\ log[Len(log)].end_time = clock - 1
    /\ log[Len(log) - 1].end_time < log[Len(log)].end_time
    /\ Len(log[Len(log) - 1].api_calls) < Len(log[Len(log)].api_calls)

\* C17: when the tokenizer fails, count_tokens does not raise and returns a
\* count derived from the character length of the text, so that a non-empty
\* text contributes a non-zero token count and cost, and the tracked LLM call
\* is still recorded.
C17_TokenizerFallback ==
    (/\ call.op = "track_llm_interaction"
     /\ ~call.prompt_ok
     /\ call.prompt.chars > 0)
        => /\ calls # <<>>
           /\ calls[Len(calls)] = ret.record
           /\ ret.record.input_tokens > 0
           /\ ret.record.cost > 0

\* C22: after any sequence of track_brave_search and track_llm_interaction
\* calls within one session, the API-call counter of the session
\* (total_api_calls, in get_status and in the saved record) is the number of
\* calls tracked, that is the number of records in the call-detail list.
C22_ApiCallCount ==
    /\ session.total_api_calls = Len(calls)
    /\ call.op = "get_status" =>
          ret.status.total_api_calls = Len(ret.status.api_calls_breakdown)

\* C30: reset_session sets input_tokens, output_tokens, search_queries and
\* total_api_calls to zero and removes no record from api_tracker.calls: the
\* list holds every call tracked since the tracker was constructed, and its
\* length never decreases under any sequence of track, save_session and
\* reset_session calls.
C30_ResetKeepsCalls ==
    [][/\ Len(calls') >= Len(calls)
       /\ SubSeq(calls', 1, Len(calls)) = calls
       /\ (call'.op = "reset_session" /\ clock' # clock) =>
            /\ calls' = calls
            /\ session'.input_tokens = 0
            /\ session'.output_tokens = 0
            /\ session'.search_queries = 0
            /\ session'.total_api_calls = 0]_vars

\* reset_session zeroed the counters of a session that had counted tokens,
\* and the calls tracked before are still in the list
C30_Witness ==
    /\ call.op = "reset_session"
    /\ session.input_tokens = 0
    /\ session.search_queries = 0
    /\ \E i \in 1..Len(calls) :
          calls[i].api_type = "llm" /\ calls[i].input_tokens > 0
    /\ \E i \in 1..Len(calls) : calls[i].api_type = "brave"

====
